---- MODULE Spec2Model ----
(***************************************************************************)
(* Model of the pipeline orchestrator go() of src/main.py.                 *)
(*                                                                         *)
(* Strings are sequences of symbols.  A symbol is either a one-character   *)
(* separator ("," ":" " ") or a fragment that contains no separator (a     *)
(* step name, "all", an artifact base name, a version).  The symbols are   *)
(* prefix-free, so two symbol sequences are equal exactly when the         *)
(* strings they spell are equal, and the string "download" is the          *)
(* one-symbol sequence <<"download">>.                                     *)
(***************************************************************************)
EXTENDS Integers, Sequences, FiniteSets, TLC

\* ------------------------------------------------------------------ bounds
MaxNames == 2
MaxCleanedLen == 3

\* ----------------------------------------------------------------- strings
Str(w) == <<w>>

\* the names a step-selection value is made of: the six step names, the
\* sentinel, the empty name, a name with a leading blank, a foreign name
SelectionNames ==
    {Str("download"), Str("basic_cleaning"), Str("data_check"),
     Str("data_split"), Str("train_random_forest"),
     Str("test_regression_model"), Str("all"), <<>>, <<" ", "download">>,
     Str("bogus")}

CleanedSyms == {"clean_sample.csv", ":", "latest"}

ProjectNames == {"nyc_airbnb"}

ExperimentNames == {"development"}

RECURSIVE StringsUpTo(_, _)
StringsUpTo(syms, n) ==
    IF n = 0 THEN {<<>>}
    ELSE LET shorter == StringsUpTo(syms, n - 1)
         IN  shorter \cup {Append(s, c) : s \in shorter, c \in syms}

\* the values of main.steps: one to n names with a comma between them
RECURSIVE SelectionValues(_)
SelectionValues(n) ==
    IF n = 1 THEN SelectionNames
    ELSE LET shorter == SelectionValues(n - 1)
         IN  shorter \cup {s \o <<",">> \o w : s \in shorter, w \in SelectionNames}

Contains(s, c) == \E i \in DOMAIN s : s[i] = c

FirstIndex(s, c) == CHOOSE i \in DOMAIN s : s[i] = c /\ \A j \in 1..(i - 1) : s[j] # c

\* str.split(sep) of Python, sep a single character
RECURSIVE PySplit(_, _)
PySplit(s, sep) ==
    IF ~Contains(s, sep) THEN <<s>>
    ELSE LET i == FirstIndex(s, sep)
         IN  <<SubSeq(s, 1, i - 1)>> \o PySplit(SubSeq(s, i + 1, Len(s)), sep)

\* x in list
PyIn(x, list) == \E i \in DOMAIN list : list[i] = x

\* ---------------------------------------------------------------- registry
\* variant: line 18 is not commented out
_stepsWithTest ==
    <<Str("download"), Str("basic_cleaning"), Str("data_check"),
      Str("data_split"), Str("train_random_forest"),
      Str("test_regression_model")>>

\* lines 9-19
_steps ==
    <<Str("download"), Str("basic_cleaning"), Str("data_check"),
      Str("data_split"), Str("train_random_forest")>>

\* variant: the cleaning block is placed before the download block
BlocksCleaningFirst ==
    <<"basic_cleaning", "download", "data_check", "data_split",
      "train_random_forest", "test_regression_model">>

\* the six conditional blocks of go(), in program order
Blocks ==
    <<"download", "basic_cleaning", "data_check", "data_split",
      "train_random_forest", "test_regression_model">>

BlockIndex(b) == CHOOSE i \in DOMAIN Blocks : Blocks[i] = b

\* control point reached when the block of step b is left normally
NextBlock(b) ==
    IF BlockIndex(b) = Len(Blocks) THEN "cleanup" ELSE Blocks[BlockIndex(b) + 1]

\* ------------------------------------------------------------------- state
VARIABLES
    config,        \* the configuration tree (the paths the model reads)
    pc,            \* control point of go()
    environ,       \* os.environ, the two W&B entries
    active_steps,  \* the local active_steps
    tmpdir,        \* the TemporaryDirectory: "none", "exists", "released"
    running,       \* the step whose mlflow.run has not returned, or "none"
    invocations,   \* the mlflow.run calls made so far, in order
    rf_file,       \* rf_config.json: "absent", "partial", "written"
    rf_writes,     \* number of completed json.dump calls
    exc,           \* the exception propagating out of go(), or "none"
    exit_code      \* exit status of the process, -1 while it runs

vars ==
    <<config, pc, environ, active_steps, tmpdir, running, invocations,
      rf_file, rf_writes, exc, exit_code>>

Unset == "unset"

Init ==
    /\ config \in [steps : SelectionValues(MaxNames),
                   cleaned : StringsUpTo(CleanedSyms, MaxCleanedLen),
                   project_name : ProjectNames,
                   experiment_name : ExperimentNames]
    /\ pc = "environ"
    /\ environ = [WANDB_PROJECT |-> Unset, WANDB_RUN_GROUP |-> Unset]
    /\ active_steps = <<>>
    /\ tmpdir = "none"
    /\ running = "none"
    /\ invocations = <<>>
    /\ rf_file = "absent"
    /\ rf_writes = 0
    /\ exc = "none"
    /\ exit_code = -1

\* ------------------------------------------------------- pure computations
\* list with later repetitions of an element removed
RECURSIVE Dedup(_)
Dedup(list) ==
    IF list = <<>> THEN <<>>
    ELSE LET front == Dedup(SubSeq(list, 1, Len(list) - 1))
         IN  IF PyIn(list[Len(list)], front) THEN front
             ELSE Append(front, list[Len(list)])

\* variant: the split list is deduplicated
SelectActiveStepsDedup(steps_par) ==
    IF steps_par # Str("all") THEN Dedup(PySplit(steps_par, ",")) ELSE _steps

\* line 31
SelectActiveSteps(steps_par) ==
    IF steps_par # Str("all") THEN PySplit(steps_par, ",") ELSE _steps

\* variant: the name is looked for inside the elements (substring test)
IsActiveSubstring(b, active) == \E i \in DOMAIN active : Contains(active[i], b)

\* the tests  "<name>" in active_steps  of lines 37, 55, 72, 88, 106, 129
IsActive(b, active) == PyIn(Str(b), active)

LastIndex(s, c) == CHOOSE i \in DOMAIN s : s[i] = c /\ \A j \in (i + 1)..Len(s) : s[j] # c

\* variant: only the last ':<version>' is cut off, as rsplit(":", 1)[0] does
WriteTargetLastSuffix(cleaned) ==
    IF Contains(cleaned, ":") THEN SubSeq(cleaned, 1, LastIndex(cleaned, ":") - 1)
    ELSE cleaned

\* variant: the configured name is passed through
WriteTargetUnstripped(cleaned) == cleaned

\* line 63
WriteTarget(cleaned) == PySplit(cleaned, ":")[1]

\* lines 79 and 98
ReadReference(cleaned) == cleaned

\* line 109
RfConfigPath == Str("rf_config.json")

DownloadParams(cfg) ==
    [artifact_name |-> Str("sample.csv"),
     artifact_type |-> Str("raw_data"),
     artifact_description |-> Str("Raw file as downloaded")]

BasicCleaningParams(cfg) ==
    [output_artifact |-> WriteTarget(cfg.cleaned),
     output_type |-> Str("clean_data"),
     output_description |-> Str("Data with basic cleaning applied")]

DataCheckParams(cfg) == [csv |-> ReadReference(cfg.cleaned)]

DataSplitParams(cfg) == [input |-> ReadReference(cfg.cleaned)]

TrainRandomForestParams(cfg) ==
    [trainval_artifact |-> <<"trainval_data.csv", ":", "latest">>,
     rf_config |-> RfConfigPath,
     output_artifact |-> Str("random_forest_export")]

TestRegressionModelParams(cfg) ==
    [mlflow_model |-> <<"model_export", ":", "prod">>,
     test_dataset |-> <<"test_data.csv", ":", "latest">>]

\* variant: a failed step does not stop the scan of the blocks
AfterRunContinue(b, ok) == NextBlock(b)

\* variant: a step that failed is run again
AfterRunRetry(b, ok) == IF ok THEN NextBlock(b) ELSE b

\* where control goes when mlflow.run of step b returns (ok) or raises
AfterRun(b, ok) == IF ok THEN NextBlock(b) ELSE "cleanup"

\* variant: the directory is removed at the end of the normal path only
TmpdirOnNormalExit(e) == IF e = "none" THEN "released" ELSE "exists"

\* TemporaryDirectory.__exit__, run on normal and on exceptional exit
TmpdirOnExit(e) == "released"

\* variant: the exception is swallowed
ExitCodeSwallowed(e) == 0

\* hydra.main: 0 when go() returns, 1 when an exception escapes it
ExitCode(e) == IF e = "none" THEN 0 ELSE 1

\* variant: the two identifiers are exchanged
EnvironFromConfigSwapped(cfg) ==
    [WANDB_PROJECT |-> cfg.experiment_name, WANDB_RUN_GROUP |-> cfg.project_name]

\* lines 26-27, the two assignments
EnvironFromConfig(cfg) ==
    [WANDB_PROJECT |-> cfg.project_name, WANDB_RUN_GROUP |-> cfg.experiment_name]

\* ----------------------------------------------------------------- actions
\* lines 26-27
SetEnviron ==
    /\ pc = "environ"
    /\ environ' = EnvironFromConfig(config)
    /\ pc' = "select"
    /\ UNCHANGED <<config, active_steps, tmpdir, running, invocations,
                   rf_file, rf_writes, exc, exit_code>>

\* lines 30-31
SelectSteps ==
    /\ pc = "select"
    /\ active_steps' = SelectActiveSteps(config.steps)
    /\ pc' = "tempdir"
    /\ UNCHANGED <<config, environ, tmpdir, running, invocations,
                   rf_file, rf_writes, exc, exit_code>>

\* line 34, __enter__
EnterTempDir ==
    /\ pc = "tempdir"
    /\ tmpdir' = "exists"
    /\ pc' = Blocks[1]
    /\ UNCHANGED <<config, environ, active_steps, running, invocations,
                   rf_file, rf_writes, exc, exit_code>>

\* variant: the step is started and go() goes on without waiting for it
InvokeAsync(b, params) ==
    /\ running' = b
    /\ invocations' = Append(invocations,
                             [step |-> b, params |-> params,
                              env |-> environ, result |-> "running"])
    /\ pc' = NextBlock(b)
    /\ UNCHANGED <<config, environ, active_steps, tmpdir,
                   rf_file, rf_writes, exc, exit_code>>

\* the call mlflow.run(...) of step b is entered
Invoke(b, params) ==
    /\ running' = b
    /\ invocations' = Append(invocations,
                             [step |-> b, params |-> params,
                              env |-> environ, result |-> "running"])
    /\ pc' = "mlflow_run"
    /\ UNCHANGED <<config, environ, active_steps, tmpdir,
                   rf_file, rf_writes, exc, exit_code>>

\* the test of block b is false
Skip(b) ==
    /\ pc' = NextBlock(b)
    /\ UNCHANGED <<config, environ, active_steps, tmpdir, running,
                   invocations, rf_file, rf_writes, exc, exit_code>>

\* lines 37-52
Download ==
    /\ pc = "download"
    /\ IF IsActive("download", active_steps)
       THEN Invoke("download", DownloadParams(config))
       ELSE Skip("download")

\* lines 55-69
BasicCleaning ==
    /\ pc = "basic_cleaning"
    /\ IF IsActive("basic_cleaning", active_steps)
       THEN Invoke("basic_cleaning", BasicCleaningParams(config))
       ELSE Skip("basic_cleaning")

\* lines 72-85
DataCheck ==
    /\ pc = "data_check"
    /\ IF IsActive("data_check", active_steps)
       THEN Invoke("data_check", DataCheckParams(config))
       ELSE Skip("data_check")

\* lines 88-103
DataSplit ==
    /\ pc = "data_split"
    /\ IF IsActive("data_split", active_steps)
       THEN Invoke("data_split", DataSplitParams(config))
       ELSE Skip("data_split")

\* variant: the step is invoked without the serialization of lines 109-111
TrainRandomForestNoDump ==
    /\ pc = "train_random_forest"
    /\ IF IsActive("train_random_forest", active_steps)
       THEN /\ pc' = "train_run"
            /\ UNCHANGED <<config, environ, active_steps, tmpdir, running,
                           invocations, rf_file, rf_writes, exc, exit_code>>
       ELSE Skip("train_random_forest")

\* line 106
TrainRandomForest ==
    /\ pc = "train_random_forest"
    /\ IF IsActive("train_random_forest", active_steps)
       THEN /\ pc' = "rf_config"
            /\ UNCHANGED <<config, environ, active_steps, tmpdir, running,
                           invocations, rf_file, rf_writes, exc, exit_code>>
       ELSE Skip("train_random_forest")

\* lines 109-111: open(..., "w+") truncates, json.dump writes; either may raise
WriteRfConfig ==
    /\ pc = "rf_config"
    /\ \E ok \in BOOLEAN :
          IF ok
          THEN /\ rf_file' = "written"
               /\ rf_writes' = rf_writes + 1
               /\ pc' = "train_run"
               /\ exc' = exc
          ELSE /\ rf_file' \in {rf_file, "partial"}
               /\ rf_writes' = rf_writes
               /\ pc' = "cleanup"
               /\ exc' = "OSError"
    /\ UNCHANGED <<config, environ, active_steps, tmpdir, running,
                   invocations, exit_code>>

\* lines 113-126
RunTrainRandomForest ==
    /\ pc = "train_run"
    /\ Invoke("train_random_forest", TrainRandomForestParams(config))

\* lines 129-142
TestRegressionModel ==
    /\ pc = "test_regression_model"
    /\ IF IsActive("test_regression_model", active_steps)
       THEN Invoke("test_regression_model", TestRegressionModelParams(config))
       ELSE Skip("test_regression_model")

\* mlflow.run blocks until the step's executable ends: it returns or raises
MlflowRunReturns ==
    /\ pc = "mlflow_run"
    /\ \E ok \in BOOLEAN :
          /\ invocations' =
                [invocations EXCEPT ![Len(invocations)].result =
                                       IF ok THEN "ok" ELSE "failed"]
          /\ pc' = AfterRun(running, ok)
          /\ exc' = IF ok THEN exc ELSE "ExecutionException"
    /\ running' = "none"
    /\ UNCHANGED <<config, environ, active_steps, tmpdir,
                   rf_file, rf_writes, exit_code>>

\* line 34, __exit__: reached by falling off the with body or by an exception
ExitTempDir ==
    /\ pc = "cleanup"
    /\ tmpdir' = TmpdirOnExit(exc)
    /\ pc' = "exit"
    /\ UNCHANGED <<config, environ, active_steps, running, invocations,
                   rf_file, rf_writes, exc, exit_code>>

\* lines 22 and 145-146: the hydra.main wrapper ends the process
HydraExit ==
    /\ pc = "exit"
    /\ exit_code' = ExitCode(exc)
    /\ pc' = "done"
    /\ UNCHANGED <<config, environ, active_steps, tmpdir, running,
                   invocations, rf_file, rf_writes, exc>>

Next ==
    \/ SetEnviron
    \/ SelectSteps
    \/ EnterTempDir
    \/ Download
    \/ BasicCleaning
    \/ DataCheck
    \/ DataSplit
    \/ TrainRandomForest
    \/ WriteRfConfig
    \/ RunTrainRandomForest
    \/ TestRegressionModel
    \/ MlflowRunReturns
    \/ ExitTempDir
    \/ HydraExit

Spec == Init /\ [][Next]_vars

TypeOK ==
    /\ pc \in {"environ", "select", "tempdir", "rf_config", "train_run",
               "mlflow_run", "cleanup", "exit", "done"}
              \cup {Blocks[i] : i \in DOMAIN Blocks}
    /\ tmpdir \in {"none", "exists", "released"}
    /\ exit_code \in {-1, 0, 1}

\* ------------------------------------------------------------------ claims
Failed(i) == invocations[i].result = "failed"

AnyFailed == \E i \in DOMAIN invocations : Failed(i)

AllOk == \A i \in DOMAIN invocations : invocations[i].result = "ok"

IsPrefix(p, s) == Len(p) <= Len(s) /\ SubSeq(s, 1, Len(p)) = p

RECURSIVE Join(_, _)
Join(list, sep) ==
    IF Len(list) = 0 THEN <<>>
    ELSE IF Len(list) = 1 THEN list[1]
    ELSE list[1] \o <<sep>> \o Join(Tail(list), sep)

Count(s, c) == Cardinality({i \in DOMAIN s : s[i] = c})

\* position of a step in the order download .. test_regression_model
Rank(b) ==
    CASE b = "download" -> 1
      [] b = "basic_cleaning" -> 2
      [] b = "data_check" -> 3
      [] b = "data_split" -> 4
      [] b = "train_random_forest" -> 5
      [] b = "test_regression_model" -> 6

StepNames ==
    {"download", "basic_cleaning", "data_check", "data_split",
     "train_random_forest", "test_regression_model"}

\* C1: the output_artifact handed to basic_cleaning is the bare name of the
\* configured etl.cleaned: it has no ':' left, it is the configured value cut
\* where its ':<version>' suffix begins, and it is the configured value
\* itself when that value has no ':'.
C1_WriteTargetIsBareName ==
    \A i \in DOMAIN invocations :
        invocations[i].step = "basic_cleaning" =>
            LET out == invocations[i].params.output_artifact
                cleaned == config.cleaned
            IN  /\ ~Contains(out, ":")
                /\ IsPrefix(out, cleaned)
                /\ Len(out) = Len(cleaned) \/ cleaned[Len(out) + 1] = ":"
                /\ ~Contains(cleaned, ":") => out = cleaned

C1_Witness ==
    /\ config.cleaned = <<"clean_sample.csv", ":", "latest">>
    /\ \E i \in DOMAIN invocations :
          /\ invocations[i].step = "basic_cleaning"
          /\ invocations[i].params.output_artifact = <<"clean_sample.csv">>

\* the read reference the naming rule asks for
Qualified(name) == IF Contains(name, ":") THEN name ELSE name \o <<":", "latest">>

\* C2: the csv parameter of data_check and the input parameter of data_split
\* carry a version qualifier: the configured (non-empty) etl.cleaned unchanged when it has
\* a ':<version>' suffix, otherwise with ':latest' appended.
C2_ReadReferenceQualified ==
    \A i \in DOMAIN invocations :
        config.cleaned # <<>> =>
        /\ invocations[i].step = "data_check" =>
              invocations[i].params.csv = Qualified(config.cleaned)
        /\ invocations[i].step = "data_split" =>
              invocations[i].params.input = Qualified(config.cleaned)

\* C3: once a step invocation has failed, no further step is invoked.
C3_FailFast == [][AnyFailed => invocations' = invocations]_vars

C3_Witness ==
    /\ pc = "done"
    /\ config.steps = Str("all")
    /\ Len(invocations) = 2
    /\ Failed(2)

\* C4: the temporary directory exists only inside the with block; once the
\* block is left, on success, on a failed step or on a failed rf_config
\* serialization, it is released, so it does not exist in a terminal state.
C4_TempDirReleased ==
    /\ pc \in {"exit", "done"} => tmpdir = "released"
    /\ exit_code # -1 => tmpdir # "exists"

C4_Witness ==
    /\ pc = "done"
    /\ exc = "OSError"
    /\ tmpdir = "released"
    /\ Len(invocations) > 0

\* C5 as stated: the steps are invoked in the order the selection gives them.
C5_ListOrder ==
    \A i, j \in DOMAIN invocations :
        i < j =>
            \E p, q \in DOMAIN active_steps :
                /\ p < q
                /\ active_steps[p] = Str(invocations[i].step)
                /\ active_steps[q] = Str(invocations[j].step)

\* C5 amended: the steps are invoked in the fixed order download,
\* basic_cleaning, data_check, data_split, train_random_forest,
\* test_regression_model, whatever order the selection lists them in.
C5_FixedOrder ==
    \A i, j \in DOMAIN invocations :
        i < j => Rank(invocations[i].step) < Rank(invocations[j].step)

C5_Witness ==
    /\ config.steps = <<"basic_cleaning", ",", "download">>
    /\ Len(invocations) = 2
    /\ invocations[1].step = "download"
    /\ invocations[2].step = "basic_cleaning"

HasUnknownName(active) ==
    \E i \in DOMAIN active : active[i] # <<>> /\ ~PyIn(active[i], _steps)

HasUntestedName(active) ==
    \E i \in DOMAIN active : \A b \in StepNames : active[i] # Str(b)

C7_Selection ==
    pc \notin {"environ", "select"} =>
        IF config.steps = Str("all")
        THEN active_steps = _steps
        ELSE /\ \A i \in DOMAIN active_steps : ~Contains(active_steps[i], ",")
             /\ Join(active_steps, ",") = config.steps
             /\ Len(active_steps) = Count(config.steps, ",") + 1

C7_Witness ==
    /\ config.steps = <<"download", ",", "download">>
    /\ active_steps = <<Str("download"), Str("download")>>

\* C8: a step is invoked only if its name is an element of active_steps; for
\* 'download,basic_cleaning' no step but these two is ever invoked.
C8_OnlySelected ==
    \A i \in DOMAIN invocations :
        /\ PyIn(Str(invocations[i].step), active_steps)
        /\ config.steps = <<"download", ",", "basic_cleaning">> =>
              invocations[i].step \in {"download", "basic_cleaning"}

C8_Witness ==
    /\ pc = "done"
    /\ config.steps = <<"download", ",", "basic_cleaning">>
    /\ Len(invocations) = 2
    /\ exit_code = 0

InvokedNames == [i \in DOMAIN invocations |-> Str(invocations[i].step)]

\* C9 as stated, for a non-empty selection value: failure whenever a step
\* fails; success only if every name of active_steps was invoked and
\* succeeded, in order.
C9_ExitOutcome ==
    (pc = "done" /\ config.steps # <<>>) =>
        /\ AnyFailed => exit_code # 0
        /\ exit_code = 0 => (AllOk /\ InvokedNames = active_steps)

IsSelected(b) == PyIn(Str(b), active_steps)

\* C9 amended: failure whenever a step fails; success only if every one of
\* the six step names that occurs in active_steps was invoked once and
\* succeeded, in the fixed block order.
C9_ExitOutcomeFixedOrder ==
    pc = "done" =>
        /\ AnyFailed => exit_code # 0
        /\ exit_code = 0 =>
              /\ AllOk
              /\ \A b \in StepNames :
                    IsSelected(b) =>
                        Cardinality({i \in DOMAIN invocations :
                                        invocations[i].step = b}) = 1
              /\ \A i, j \in DOMAIN invocations :
                    i < j => Rank(invocations[i].step) < Rank(invocations[j].step)

C9_Witness ==
    /\ pc = "done"
    /\ exit_code = 0
    /\ config.steps = <<"data_check", ",", "download">>
    /\ Len(invocations) = 2

ConfiguredEnviron ==
    [WANDB_PROJECT |-> config.project_name,
     WANDB_RUN_GROUP |-> config.experiment_name]

\* C10: WANDB_PROJECT and WANDB_RUN_GROUP hold main.project_name and
\* main.experiment_name before the first step is invoked, every invoked
\* step observes these two values, and no later action changes them.
C10_EnvironSetOnce ==
    /\ [](\A i \in DOMAIN invocations : invocations[i].env = ConfiguredEnviron)
    /\ [](pc # "environ" => environ = ConfiguredEnviron)
    /\ [][pc # "environ" => environ' = environ]_vars

C10_Witness ==
    /\ Len(invocations) = 2
    /\ invocations[1].env = ConfiguredEnviron
    /\ invocations[2].env = ConfiguredEnviron
    /\ environ.WANDB_PROJECT = "nyc_airbnb"
    /\ environ.WANDB_RUN_GROUP = "development"

IsRunning(i) == invocations[i].result = "running"

NoneRunning == \A i \in DOMAIN invocations : ~IsRunning(i)

\* C11: at most one step is running at any moment, and neither a step nor
\* the rf_config serialization is started while an invoked step has not
\* yet returned or raised.
C11_Sequential ==
    /\ [](Cardinality({i \in DOMAIN invocations : IsRunning(i)}) <= 1)
    /\ [][(\/ Len(invocations') > Len(invocations)
           \/ pc' = "rf_config"
           \/ rf_writes' # rf_writes
           \/ rf_file' # rf_file) => NoneRunning]_vars

C11_Witness ==
    /\ Len(invocations) = 2
    /\ invocations[1].result = "ok"
    /\ IsRunning(2)
    /\ running = invocations[2].step

\* C12: the write-side stripping applied to the output_artifact that was
\* handed to basic_cleaning returns it unchanged, also for a configured name
\* with several ':'.
C12_WriteTargetIdempotent ==
    \A i \in DOMAIN invocations :
        invocations[i].step = "basic_cleaning" =>
            /\ invocations[i].params.output_artifact = WriteTarget(config.cleaned)
            /\ WriteTarget(invocations[i].params.output_artifact)
                  = invocations[i].params.output_artifact

C12_Witness ==
    /\ config.cleaned = <<"clean_sample.csv", ":", ":">>
    /\ \E i \in DOMAIN invocations :
          /\ invocations[i].step = "basic_cleaning"
          /\ invocations[i].params.output_artifact = <<"clean_sample.csv">>

\* C13: when the configured etl.cleaned is a bare ':<version>', so that
\* stripping leaves an empty name, basic_cleaning is not invoked with an
\* empty output_artifact.
C13_EmptyWriteTargetRejected ==
    (Len(config.cleaned) > 1 /\ config.cleaned[1] = ":"
                             /\ config.cleaned[2] # ":") =>
        \A i \in DOMAIN invocations :
            invocations[i].step = "basic_cleaning" =>
                invocations[i].params.output_artifact # <<>>

\* a step placed before train_random_forest has failed
EarlierStepFailed ==
    \E i \in DOMAIN invocations :
        Failed(i) /\ Rank(invocations[i].step) < Rank("train_random_forest")

\* the serialization of rf_config.json was carried out (it ended or raised)
RfConfigWriteDone == rf_writes > 0 \/ exc = "OSError"

NamesExplicitly(value, name) ==
    \E k \in DOMAIN value :
        /\ value[k] = name
        /\ k = 1 \/ value[k - 1] = ","
        /\ k = Len(value) \/ value[k + 1] = ","

\* C15: test_regression_model is not invoked when main.steps is 'all'; it
\* is invoked only when main.steps has it as a comma-separated element.
C15_TestStepOnlyExplicit ==
    \A i \in DOMAIN invocations :
        invocations[i].step = "test_regression_model" =>
            /\ config.steps # Str("all")
            /\ NamesExplicitly(config.steps, "test_regression_model")

C15_Witness ==
    /\ config.steps = <<"download", ",", "test_regression_model">>
    /\ Len(invocations) = 2
    /\ invocations[2].step = "test_regression_model"

\* C16: each of the six steps is invoked at most once in an invocation of
\* the orchestrator, also when the selection names it several times.
C16_AtMostOncePerStep ==
    \A b \in StepNames :
        Cardinality({i \in DOMAIN invocations : invocations[i].step = b}) <= 1

C16_Witness ==
    /\ pc = "done"
    /\ config.steps = <<"download", ",", "download">>
    /\ Len(invocations) = 1
    /\ invocations[1].step = "download"
====
